---------------------------- MODULE Spec2Model ----------------------------
(***************************************************************************)
(* Model of clean_data.py: the text normaliser clean_text, the language    *)
(* filter is_english, the per-source pipeline load_and_clean and the batch *)
(* driver main.                                                            *)
(*                                                                         *)
(* A Python str is a sequence of one-character strings.  A value that may  *)
(* be None, a float NaN or a str is a tagged record (PyNone, PyNaN,        *)
(* PyStr(s)).                                                              *)
(***************************************************************************)
EXTENDS Integers, Sequences, FiniteSets, TLC

(***************************************************************************)
(* Python values                                                           *)
(***************************************************************************)
PyNone == [tag |-> "None", val |-> <<>>]

PyNaN == [tag |-> "float", val |-> <<"n", "a", "n">>]

PyStr(s) == [tag |-> "str", val |-> s]

\* str(x) for a str or a float NaN (line 97: str(text)).
Str(x) == x.val

(***************************************************************************)
(* Character classes of the re module (str patterns) and str.lower         *)
(***************************************************************************)
UpperLetters == <<"A", "B", "C", "D", "E", "F", "G", "H", "I", "J", "K", "L", "M",
                  "N", "O", "P", "Q", "R", "S", "T", "U", "V", "W", "X", "Y", "Z">>

LowerLetters == <<"a", "b", "c", "d", "e", "f", "g", "h", "i", "j", "k", "l", "m",
                  "n", "o", "p", "q", "r", "s", "t", "u", "v", "w", "x", "y", "z">>

Digits == <<"0", "1", "2", "3", "4", "5", "6", "7", "8", "9">>

Range(f) == {f[k] : k \in DOMAIN f}

\* \s
SpaceChars == {" ", "\t", "\n", "\r", "\f"}

\* \w
WordChars == Range(UpperLetters) \cup Range(LowerLetters) \cup Range(Digits) \cup {"_"}

IsSpace(c) == c \in SpaceChars

IsWord(c) == c \in WordChars

\* str.lower on one character
Lower(c) ==
    IF c \in Range(UpperLetters)
    THEN LowerLetters[CHOOSE k \in DOMAIN UpperLetters : UpperLetters[k] = c]
    ELSE c

\* Does the literal lit (lower case) match s at position i, ignoring case?
StartsWithCI(s, i, lit) ==
    /\ i + Len(lit) - 1 <= Len(s)
    /\ \A k \in 1..Len(lit) : Lower(s[i + k - 1]) = lit[k]

RECURSIVE SkipSpace(_, _)
\* The first position >= i of s that holds no white space (Len(s)+1 if none).
SkipSpace(s, i) ==
    IF i <= Len(s) /\ IsSpace(s[i]) THEN SkipSpace(s, i + 1) ELSE i

RECURSIVE SkipNonSpace(_, _)
\* The first position >= i of s that holds white space (Len(s)+1 if none).
SkipNonSpace(s, i) ==
    IF i <= Len(s) /\ ~IsSpace(s[i]) THEN SkipNonSpace(s, i + 1) ELSE i

RECURSIVE SkipWord(_, _)
\* The first position >= i of s that holds no word character.
SkipWord(s, i) ==
    IF i <= Len(s) /\ IsWord(s[i]) THEN SkipWord(s, i + 1) ELSE i

(***************************************************************************)
(* html.unescape (line 97).  The standard library's                        *)
(*   _charref = &(#[0-9]+;?|#[xX][0-9a-fA-F]+;?|[^\t\n\f <&#;]{1,32};?)    *)
(* and _replace_charref.  Html5Names lists the entries of                  *)
(* html.entities.html5 that the strings of this model can spell.           *)
(***************************************************************************)
Html5Names == {<<"a", "m", "p">>, <<"a", "m", "p", ";">>,
               <<"l", "t">>, <<"l", "t", ";">>,
               <<"g", "t">>, <<"g", "t", ";">>,
               <<"q", "u", "o", "t">>, <<"q", "u", "o", "t", ";">>}

Html5(name) ==
    CASE name[1] = "a" -> <<"&">>
      [] name[1] = "l" -> <<"<">>
      [] name[1] = "g" -> <<">">>
      [] name[1] = "q" -> <<"\"">>

\* The characters U+0020 .. U+007E in code point order (U+0060 by its name).
Ascii == <<" ", "!", "\"", "#", "$", "%", "&", "'", "(", ")", "*", "+", ",", "-", ".", "/",
           "0", "1", "2", "3", "4", "5", "6", "7", "8", "9", ":", ";", "<", "=", ">", "?",
           "@", "A", "B", "C", "D", "E", "F", "G", "H", "I", "J", "K", "L", "M", "N", "O",
           "P", "Q", "R", "S", "T", "U", "V", "W", "X", "Y", "Z", "[", "\\", "]", "^", "_",
           "U+96", "a", "b", "c", "d", "e", "f", "g", "h", "i", "j", "k", "l", "m", "n", "o",
           "p", "q", "r", "s", "t", "u", "v", "w", "x", "y", "z", "{", "|", "}", "~">>

\* chr(num); a code point above U+007E is an opaque symbol, neither \w nor \s.
Chr(num) ==
    CASE num = 9 -> "\t"
      [] num = 10 -> "\n"
      [] num = 12 -> "\f"
      [] num \in 32..126 -> Ascii[num - 31]
      [] OTHER -> "U+" \o ToString(num)

IsDigit(c) == c \in Range(Digits)

HexLetters == <<"a", "b", "c", "d", "e", "f">>

IsHex(c) == IsDigit(c) \/ Lower(c) \in Range(HexLetters)

HexVal(c) ==
    IF IsDigit(c)
    THEN (CHOOSE k \in DOMAIN Digits : Digits[k] = c) - 1
    ELSE (CHOOSE k \in DOMAIN HexLetters : HexLetters[k] = Lower(c)) + 9

RECURSIVE SkipDigits(_, _)
SkipDigits(s, i) ==
    IF i <= Len(s) /\ IsDigit(s[i]) THEN SkipDigits(s, i + 1) ELSE i

RECURSIVE SkipHex(_, _)
SkipHex(s, i) ==
    IF i <= Len(s) /\ IsHex(s[i]) THEN SkipHex(s, i + 1) ELSE i

RECURSIVE IntOf(_, _)
\* int(digits, base)
IntOf(ds, base) ==
    IF ds = <<>> THEN 0
    ELSE IntOf(SubSeq(ds, 1, Len(ds) - 1), base) * base + HexVal(ds[Len(ds)])

\* The characters [^\t\n\f <&#;] may not hold.
NameStop == {"\t", "\n", "\f", " ", "<", "&", "#", ";"}

RECURSIVE SkipName(_, _, _)
\* [^\t\n\f <&#;]{1,32}, greedy: at most left more characters from i.
SkipName(s, i, left) ==
    IF left > 0 /\ i <= Len(s) /\ s[i] \notin NameStop
    THEN SkipName(s, i + 1, left - 1) ELSE i

\* ;? at position i
OptSemi(s, i) == IF i <= Len(s) /\ s[i] = ";" THEN i + 1 ELSE i

\* _replace_charref for a numeric reference
NumericCharref(num) ==
    CASE num = 0 -> <<"U+65533">>
      [] num = 13 -> <<"\r">>
      [] num \in 128..159 -> <<"cp1252+" \o ToString(num)>>
      [] num \in 55296..57343 \/ num > 1114111 -> <<"U+65533">>
      [] \/ num \in 1..8 \/ num = 11 \/ num \in 14..31 \/ num = 127
         \/ num \in 64976..65007
         \/ (num % 65536) \in {65534, 65535} -> <<>>
      [] OTHER -> <<Chr(num)>>

RECURSIVE LongestPrefix(_, _)
\* for x in range(len(s)-1, 1, -1): if s[:x] in html5: return html5[s[:x]] + s[x:]
\* else: return '&' + s
LongestPrefix(name, x) ==
    IF x <= 1 THEN <<"&">> \o name
    ELSE IF SubSeq(name, 1, x) \in Html5Names
         THEN Html5(SubSeq(name, 1, x)) \o SubSeq(name, x + 1, Len(name))
         ELSE LongestPrefix(name, x - 1)

\* _replace_charref for a named reference
NamedCharref(name) ==
    IF name \in Html5Names THEN Html5(name) ELSE LongestPrefix(name, Len(name) - 1)

\* _charref matched at position i of s (s[i] = "&"): where the match ends
\* (exclusive; 0 when there is none) and what replaces it.
Charref(s, i) ==
    LET j == i + 1 IN
    IF j > Len(s) THEN [end |-> 0, rep |-> <<>>]
    ELSE IF s[j] = "#"
    THEN IF j + 1 <= Len(s) /\ IsDigit(s[j + 1])
         THEN LET e == SkipDigits(s, j + 1) IN
              [end |-> OptSemi(s, e),
               rep |-> NumericCharref(IntOf(SubSeq(s, j + 1, e - 1), 10))]
         ELSE IF j + 2 <= Len(s) /\ Lower(s[j + 1]) = "x" /\ IsHex(s[j + 2])
         THEN LET e == SkipHex(s, j + 2) IN
              [end |-> OptSemi(s, e),
               rep |-> NumericCharref(IntOf(SubSeq(s, j + 2, e - 1), 16))]
         ELSE [end |-> 0, rep |-> <<>>]
    ELSE LET e == SkipName(s, j, 32) IN
         IF e = j THEN [end |-> 0, rep |-> <<>>]
         ELSE [end |-> OptSemi(s, e),
               rep |-> NamedCharref(SubSeq(s, j, OptSemi(s, e) - 1))]

RECURSIVE UnescapeFrom(_, _)
UnescapeFrom(s, i) ==
    IF i > Len(s) THEN <<>>
    ELSE IF s[i] = "&" /\ Charref(s, i).end > 0
    THEN Charref(s, i).rep \o UnescapeFrom(s, Charref(s, i).end)
    ELSE <<s[i]>> \o UnescapeFrom(s, i + 1)

\* html.unescape(s)
Unescape(s) == UnescapeFrom(s, 1)

(***************************************************************************)
(* The compiled patterns (lines 63-67) and their sub() calls               *)
(***************************************************************************)
\* RT_RE.sub("", s): ^\s*rt\s+ with re.IGNORECASE, at the start of s only.
RT_RE_sub(s) ==
    LET i == SkipSpace(s, 1) IN
    IF StartsWithCI(s, i, <<"r", "t">>) /\ i + 2 <= Len(s) /\ IsSpace(s[i + 2])
    THEN SubSeq(s, SkipSpace(s, i + 2), Len(s))
    ELSE s

\* \S+ from position i: where it ends (exclusive), 0 when s[i] is no \S.
NonSpaceRun(s, i) ==
    IF i <= Len(s) /\ ~IsSpace(s[i]) THEN SkipNonSpace(s, i) ELSE 0

\* URL_RE matched at position i: https?://\S+|www\.\S+ with re.IGNORECASE.
\* Where the match ends (exclusive), 0 when there is none.
URL_RE_match(s, i) ==
    IF /\ StartsWithCI(s, i, <<"h", "t", "t", "p", "s", ":", "/", "/">>)
       /\ NonSpaceRun(s, i + 8) > 0
    THEN NonSpaceRun(s, i + 8)
    ELSE IF /\ StartsWithCI(s, i, <<"h", "t", "t", "p", ":", "/", "/">>)
            /\ NonSpaceRun(s, i + 7) > 0
    THEN NonSpaceRun(s, i + 7)
    ELSE IF /\ StartsWithCI(s, i, <<"w", "w", "w", ".">>)
            /\ NonSpaceRun(s, i + 4) > 0
    THEN NonSpaceRun(s, i + 4)
    ELSE 0

RECURSIVE URL_RE_from(_, _)
URL_RE_from(s, i) ==
    IF i > Len(s) THEN <<>>
    ELSE IF URL_RE_match(s, i) > 0 THEN URL_RE_from(s, URL_RE_match(s, i))
    ELSE <<s[i]>> \o URL_RE_from(s, i + 1)

\* URL_RE.sub("", s)
URL_RE_sub(s) == URL_RE_from(s, 1)

\* @\w+ or #(\w+) matched at position i: where the match ends, 0 when none.
SigilWord(s, i, sigil) ==
    IF s[i] = sigil /\ i + 1 <= Len(s) /\ IsWord(s[i + 1])
    THEN SkipWord(s, i + 1) ELSE 0

RECURSIVE MentionToSpace_from(_, _)
MentionToSpace_from(s, i) ==
    IF i > Len(s) THEN <<>>
    ELSE IF s[i] = "@" /\ NonSpaceRun(s, i + 1) > 0
    THEN MentionToSpace_from(s, NonSpaceRun(s, i + 1))
    ELSE <<s[i]>> \o MentionToSpace_from(s, i + 1)

\* @\S+ in place of @\w+
MentionToSpace_sub(s) == MentionToSpace_from(s, 1)

RECURSIVE MENTION_RE_from(_, _)
MENTION_RE_from(s, i) ==
    IF i > Len(s) THEN <<>>
    ELSE IF SigilWord(s, i, "@") > 0 THEN MENTION_RE_from(s, SigilWord(s, i, "@"))
    ELSE <<s[i]>> \o MENTION_RE_from(s, i + 1)

\* MENTION_RE.sub("", s)
MENTION_RE_sub(s) == MENTION_RE_from(s, 1)

RECURSIVE HASHTAG_RE_from(_, _)
HASHTAG_RE_from(s, i) ==
    IF i > Len(s) THEN <<>>
    ELSE IF SigilWord(s, i, "#") > 0
    THEN SubSeq(s, i + 1, SigilWord(s, i, "#") - 1)
         \o HASHTAG_RE_from(s, SigilWord(s, i, "#"))
    ELSE <<s[i]>> \o HASHTAG_RE_from(s, i + 1)

\* HASHTAG_RE.sub(r"\1", s)
HASHTAG_RE_sub(s) == HASHTAG_RE_from(s, 1)

\* s.replace("\n", " ").replace("\r", " ")
ReplaceNewlines(s) ==
    [k \in DOMAIN s |-> IF s[k] \in {"\n", "\r"} THEN " " ELSE s[k]]

RECURSIVE MULTISPACE_RE_from(_, _)
MULTISPACE_RE_from(s, i) ==
    IF i > Len(s) THEN <<>>
    ELSE IF IsSpace(s[i]) THEN <<" ">> \o MULTISPACE_RE_from(s, SkipSpace(s, i))
    ELSE <<s[i]>> \o MULTISPACE_RE_from(s, i + 1)

\* MULTISPACE_RE.sub(" ", s)
MULTISPACE_RE_sub(s) == MULTISPACE_RE_from(s, 1)

RECURSIVE SkipSpaceBack(_, _)
SkipSpaceBack(s, i) ==
    IF i >= 1 /\ IsSpace(s[i]) THEN SkipSpaceBack(s, i - 1) ELSE i

\* s.strip()
Strip(s) == SubSeq(s, SkipSpace(s, 1), SkipSpaceBack(s, Len(s)))

\* s.lower()
LowerStr(s) == [k \in DOMAIN s |-> Lower(s[k])]

\* clean_text(text), lines 94-105
clean_text(text) ==
    IF text = PyNone THEN <<>>
    ELSE LowerStr(Strip(MULTISPACE_RE_sub(ReplaceNewlines(HASHTAG_RE_sub(
             MENTION_RE_sub(URL_RE_sub(RT_RE_sub(Unescape(Str(text))))))))))

(***************************************************************************)
(* is_english (lines 108-116).  langdetect.detect is an external,          *)
(* probabilistic classifier: what one call on a non-empty text gives is an *)
(* input of the model, one of DetectOutcomes, drawn per row.  The name     *)
(* detect is bound by the import of line 22, so the branch of line 111     *)
(* (detect is None) is never taken.                                        *)
(***************************************************************************)
DetectOutcomes == {"en", "fr", "LangDetectException"}

\* What a call gives: it raises (an exception leaves the function) or returns value.
Returns(b) == [raised |-> FALSE, value |-> b]

Raises == [raised |-> TRUE, value |-> FALSE]

\* without the test of line 109
is_english_unguarded(text, outcome) ==
    IF outcome = "LangDetectException" THEN Returns(FALSE)
    ELSE Returns(outcome = "en")

\* without the except clause of lines 115-116
is_english_uncaught(text, outcome) ==
    IF text = <<>> THEN Returns(FALSE)
    ELSE IF outcome = "LangDetectException" THEN Raises
    ELSE Returns(outcome = "en")

is_english(text, outcome) ==
    IF text = <<>> THEN Returns(FALSE)
    ELSE IF outcome = "LangDetectException" THEN Returns(FALSE)
    ELSE Returns(outcome = "en")

(***************************************************************************)
(* FILES (lines 28-61)                                                     *)
(***************************************************************************)
FILES ==
    << [path |-> "Democrat_2020.csv", label |-> "democrat", year |-> 2020,
        id_col |-> "tweet_id", text_col |-> "tweet", date_col |-> "created_at"],
       [path |-> "Republican_2020.csv", label |-> "republican", year |-> 2020,
        id_col |-> "tweet_id", text_col |-> "tweet", date_col |-> "created_at"],
       [path |-> "Democrat_2024.csv", label |-> "democrat", year |-> 2024,
        id_col |-> "Tweet ID", text_col |-> "Text", date_col |-> "Date"],
       [path |-> "Republican_2024.csv", label |-> "republican", year |-> 2024,
        id_col |-> "Tweet ID", text_col |-> "Text", date_col |-> "Date"] >>

(***************************************************************************)
(* load_and_clean (lines 119-152).                                         *)
(*                                                                         *)
(* What pd.read_csv(path, dtype=str) gives is a record                     *)
(*   [readable, columns, rows]: readable is FALSE when read_csv raises;    *)
(* columns is the set of column names; a row is [idx, id, text, lang]: its *)
(* index label, its cell in the configured id column, its cell in the text *)
(* column, and what detect gives on its cleaned text.  A cell is a str or, *)
(* for an empty cell, the float NaN.  An id cell is a TLA+ string and NaN  *)
(* is written "NaN": read_csv never gives that str, it is one of its       *)
(* na_values.  The cells of the other columns are never read by the code   *)
(* and are left out.  The id (text) field of a row of a table without that *)
(* column is never read.                                                   *)
(***************************************************************************)
NaNId == "NaN"

\* col.startswith("Unnamed"), over the column names of the model
StartsWithUnnamed(col) == col \in {"Unnamed: 0"}

\* col.strip() == "", over the column names of the model
IsBlank(col) == col \in {" "}

\* lines 122-124
DropCols(columns) == {c \in columns : ~(StartsWithUnnamed(c) \/ IsBlank(c))}

\* the text column left out of rename_map
RenameWithoutText(config, c) ==
    IF c = config.date_col THEN "created_at"
    ELSE IF c = config.id_col THEN "tweet_id"
    ELSE c

\* lines 126-131: df.rename(columns=rename_map) ignores the keys that are absent
Rename(config, c) ==
    IF c = config.text_col THEN "text"
    ELSE IF c = config.date_col THEN "created_at"
    ELSE IF c = config.id_col THEN "tweet_id"
    ELSE c

Reconciled(config, columns) ==
    {Rename(config, c) : c \in DropCols(columns)} \cup {"label", "year"}

RECURSIVE SelectRows(_, _)
\* df[mask]: the rows whose index label is in keep, in order
SelectRows(rows, keep) ==
    IF rows = <<>> THEN <<>>
    ELSE (IF Head(rows).idx \in keep THEN <<Head(rows)>> ELSE <<>>)
         \o SelectRows(Tail(rows), keep)

\* subset=["text"] in both branches
SameText(a, b, byId) == a.text = b.text

\* Do two rows agree on the subset drop_duplicates compares (lines 143, 145)?
\* Two NaN cells count as equal there.
SameKey(a, b, byId) == IF byId THEN a.id = b.id ELSE a.text = b.text

\* keep="last" in place of keep="first"
DropDuplicatesKeepLast(rows, byId) ==
    SelectRows(rows, {rows[k].idx : k \in
        {k \in DOMAIN rows : \A j \in (k + 1)..Len(rows) : ~SameKey(rows[j], rows[k], byId)}})

\* df.drop_duplicates(subset=[...], keep="first"): a row stays when no earlier
\* row agrees with it on the subset.
DropDuplicates(rows, byId) ==
    SelectRows(rows, {rows[k].idx : k \in
        {k \in DOMAIN rows : \A j \in 1..(k - 1) : ~SameKey(rows[j], rows[k], byId)}})

\* lines 147-152: df[columns], a missing column filled with ""
Project(config, rows, hasId) ==
    [k \in DOMAIN rows |->
        [idx |-> rows[k].idx,
         tweet_id |-> IF hasId THEN rows[k].id ELSE "",
         text |-> rows[k].text,
         label |-> config.label,
         year |-> ToString(config.year)]]

\* An exception left load_and_clean.
LoadRaises(exc) ==
    [raised |-> TRUE, exc |-> exc, hasId |-> FALSE,
     cleaned |-> <<>>, english |-> <<>>, nonempty |-> <<>>, df |-> <<>>]

\* load_and_clean(config), given what read_csv gives.  Next to the returned
\* frame df the result keeps the frame after line 136 (cleaned), after line 138
\* (english) and after line 140 (nonempty).
load_and_clean(config, csv) ==
    IF ~csv.readable THEN LoadRaises("read_csv")
    ELSE IF "text" \notin Reconciled(config, csv.columns) THEN LoadRaises("KeyError")
    ELSE
    LET hasId == "tweet_id" \in Reconciled(config, csv.columns)
        cleaned == [k \in DOMAIN csv.rows |->
                       [csv.rows[k] EXCEPT !.text = clean_text(csv.rows[k].text)]]
        verdict == [k \in DOMAIN cleaned |-> is_english(cleaned[k].text, cleaned[k].lang)]
        english == SelectRows(cleaned,
                       {cleaned[k].idx : k \in {k \in DOMAIN cleaned : verdict[k].value}})
        nonempty == SelectRows(english,
                       {english[k].idx : k \in {k \in DOMAIN english : english[k].text # <<>>}})
        deduped == DropDuplicates(nonempty, hasId)
    IN  IF \E k \in DOMAIN verdict : verdict[k].raised
        THEN LoadRaises("LangDetectException")
        ELSE [raised |-> FALSE, exc |-> "", hasId |-> hasId,
              cleaned |-> cleaned, english |-> english, nonempty |-> nonempty,
              df |-> Project(config, deduped, hasId)]

(***************************************************************************)
(* State                                                                   *)
(***************************************************************************)
VARIABLES
    \* clean_text applied to a value, and to its own result
    raw,        \* the argument: None, a float NaN or a str
    once,       \* clean_text(raw)
    twice,      \* clean_text(once)
    tpc,        \* "start", "once", "twice"
    \* one call of load_and_clean
    source,     \* its argument, an entry of FILES
    table,      \* what pd.read_csv gives for source["path"]
    result,     \* what the call gave
    lpc,        \* "start", "done"
    \* one run of main
    pc,         \* "loop", "w2020", "w2024", "done", "error"
    next,       \* the position in FILES of the next source
    cleaned,    \* the list cleaned
    files,      \* the files of OUTPUT_DIR: file name -> [exists, rows]
    lastColumns,   \* the columns of the csv read last
    lastReadable   \* whether read_csv gave a table for it

vars == <<raw, once, twice, tpc, source, table, result, lpc,
          pc, next, cleaned, files, lastColumns, lastReadable>>

textVars == <<raw, once, twice, tpc>>

loadVars == <<source, table, result, lpc>>

mainVars == <<pc, next, cleaned, files, lastColumns, lastReadable>>

(***************************************************************************)
(* clean_text on bounded inputs, applied once and then to its own result   *)
(***************************************************************************)
\* The pieces the input strings are put together from.
Fragments ==
    << <<"R", "T", " ">>,
       <<"&", "a", "m", "p", ";">>,
       <<"a", "m", "p", ";">>,
       <<"#">>,
       <<"@", "a">>,
       <<"a">>,
       <<" ">>,
       <<"w", "w", "w">>,
       <<".", "b">>,
       <<"h", "t", "t", "p", ":", "/", "/">>,
       <<"&", "#", "3", "5", ";">>,
       <<"\n">>,
       <<"&">> >>

\* At most this many pieces in one input string.
MaxFragments == 3

RECURSIVE Join(_)
Join(fs) == IF fs = <<>> THEN <<>> ELSE Head(fs) \o Join(Tail(fs))

FragmentTexts == {Join(fs) : fs \in UNION {[1..k -> Range(Fragments)] : k \in 0..MaxFragments}}

\* "RT @alice: Check http://x.co/abc #GoVote!!"
ExampleTweet ==
    <<"R", "T", " ", "@", "a", "l", "i", "c", "e", ":", " ", "C", "h", "e", "c", "k", " ", "h", "t", "t", "p", ":", "/", "/", "x", ".", "c", "o", "/", "a", "b", "c", " ", "#", "G", "o", "V", "o", "t", "e", "!", "!">>

TextInputs == {PyNone, PyNaN} \cup {PyStr(s) : s \in FragmentTexts \cup {ExampleTweet}}

IdleText == raw = PyNone /\ once = <<>> /\ twice = <<>> /\ tpc = "idle"

TextInit ==
    /\ raw \in TextInputs
    /\ once = <<>> /\ twice = <<>> /\ tpc = "start"

\* text = clean_text(raw)
CleanOnce ==
    /\ tpc = "start"
    /\ once' = clean_text(raw)
    /\ tpc' = "once"
    /\ UNCHANGED <<raw, twice, loadVars, mainVars>>

\* text = clean_text(text)
CleanTwice ==
    /\ tpc = "once"
    /\ twice' = clean_text(PyStr(once))
    /\ tpc' = "twice"
    /\ UNCHANGED <<raw, once, loadVars, mainVars>>

(***************************************************************************)
(* The tables read_csv may give                                            *)
(***************************************************************************)
Unreadable == [readable |-> FALSE, columns |-> {}, rows |-> <<>>]

\* The columns a source is configured with.
Configured(config) == {config.id_col, config.text_col, config.date_col}

\* Sets of column names of a raw table: the id column and the text column are
\* each there or not, next to the date column or an unnamed column.
LoadColumnSets(config) ==
    {a \cup b \cup c :
        a \in {{}, {config.id_col}},
        b \in {{}, {config.text_col}},
        c \in {{config.date_col}, {"Unnamed: 0"}}}

\* Sets of column names of a raw table: every configured column, all but one
\* of them, or the text in a column already named text.  No two columns
\* reconcile to one name.
MainColumnSets(config) ==
    {Configured(config)}
    \cup {Configured(config) \ {c} : c \in Configured(config)}
    \cup {(Configured(config) \ {config.text_col}) \cup {"text"}}

\* The cells a row of a table with these columns may hold.
Cells(config, columns, ids, texts, outcomes) ==
    [id : IF "tweet_id" \in Reconciled(config, columns) THEN ids ELSE {NaNId},
     text : IF "text" \in Reconciled(config, columns) THEN texts ELSE {PyNaN},
     lang : IF "text" \in Reconciled(config, columns) THEN outcomes ELSE {"en"}]

\* The table with these columns whose k-th row holds the cells f[k]; its index
\* labels are 0, 1, ...
TableOf(columns, f) ==
    [readable |-> TRUE, columns |-> columns,
     rows |-> [k \in DOMAIN f |-> [idx |-> k - 1, id |-> f[k].id, text |-> f[k].text,
                                   lang |-> f[k].lang]]]

\* Is t what read_csv may give: no table, or one of at least one and at most n
\* rows, with one of the column sets?  A file of a header line and no row is
\* left out: what line 138 selects from a frame without rows is decided by
\* pandas, not by this code.
IsTable(t, config, columnSets, n, ids, texts, outcomes) ==
    \/ t = Unreadable
    \/ \E cs \in columnSets, m \in 1..n :
          \E f \in [1..m -> Cells(config, cs, ids, texts, outcomes)] : t = TableOf(cs, f)

(***************************************************************************)
(* One call of load_and_clean on a bounded table                           *)
(***************************************************************************)
\* At most this many rows in the table of one call.
MaxRows == 2

IdCells == {"1", "2", NaNId}

\* "Hi", "hi " (the same text once cleaned), "@a" (empty once cleaned) and
\* an empty cell.
TextCells == {PyStr(<<"H", "i">>), PyStr(<<"h", "i", " ">>), PyStr(<<"@", "a">>), PyNaN}

IsLoadTable(t, config) ==
    IsTable(t, config, LoadColumnSets(config), MaxRows, IdCells, TextCells, DetectOutcomes)

IdleLoad ==
    source = FILES[1] /\ table = Unreadable /\ result = LoadRaises("") /\ lpc = "idle"

\* One source of each column mapping, label and year.
LoadConfigs == {FILES[1], FILES[4]}

LoadInit ==
    /\ source \in LoadConfigs
    /\ IsLoadTable(table, source)
    /\ result = LoadRaises("")
    /\ lpc = "start"

\* df = load_and_clean(config)
Load ==
    /\ lpc = "start"
    /\ result' = load_and_clean(source, table)
    /\ lpc' = "done"
    /\ UNCHANGED <<source, table, textVars, mainVars>>

(***************************************************************************)
(* main (lines 155-173).  OUTPUT_DIR exists after line 156; files maps     *)
(* each file name main may write to what was written.                      *)
(***************************************************************************)
\* At most this many rows in each table main reads.
MaxMainRows == 1

MainIds == {"1", "2"}

MainTexts == {PyStr(<<"H", "i">>)}

MainOutcomes == {"en", "fr"}

MainTables(config) ==
    {Unreadable} \cup
    UNION {{TableOf(cs, f) :
               f \in UNION {[1..m -> Cells(config, cs, MainIds, MainTexts, MainOutcomes)] :
                                m \in 1..MaxMainRows}} :
           cs \in MainColumnSets(config)}

\* line 163
OutName(config) == config.label \o "_" \o ToString(config.year) \o "_cleaned.csv"

CombinedNames ==
    {"tweets_all_cleaned.csv", "tweets_2020_cleaned.csv", "tweets_2024_cleaned.csv"}

FileNames == {OutName(FILES[k]) : k \in DOMAIN FILES} \cup CombinedNames

NoFile == [exists |-> FALSE, rows |-> <<>>]

\* df.to_csv(path, index=False): the index labels are left out and a NaN is
\* written as an empty field.
ToCsv(df) ==
    [exists |-> TRUE,
     rows |-> [k \in DOMAIN df |->
                  [tweet_id |-> IF df[k].tweet_id = NaNId THEN "" ELSE df[k].tweet_id,
                   text |-> df[k].text, label |-> df[k].label, year |-> df[k].year]]]

RECURSIVE Flatten(_)
Flatten(frames) == IF frames = <<>> THEN <<>> ELSE Head(frames) \o Flatten(Tail(frames))

\* The frames in reverse order
ConcatReversed(frames) ==
    LET rev == [k \in DOMAIN frames |-> frames[Len(frames) + 1 - k]]
    IN  [k \in DOMAIN Flatten(rev) |-> [Flatten(rev)[k] EXCEPT !.idx = k - 1]]

\* pd.concat(frames, ignore_index=True), line 166
Concat(frames) ==
    [k \in DOMAIN Flatten(frames) |-> [Flatten(frames)[k] EXCEPT !.idx = k - 1]]

\* combined[combined["year"] == y], lines 169-170
YearOf(df, y) == SelectRows(df, {df[k].idx : k \in {k \in DOMAIN df : df[k].year = y}})

\* for config in FILES stops one source early
MoreSourcesButLast(n) == n < Len(FILES)

\* for config in FILES (line 159): is there an n-th source?
MoreSources(n) == n <= Len(FILES)

IdleMain ==
    /\ pc = "idle" /\ next = 1 /\ cleaned = <<>>
    /\ files = [f \in FileNames |-> NoFile]
    /\ lastColumns = {} /\ lastReadable = TRUE

MainInit ==
    /\ pc = "loop" /\ next = 1 /\ cleaned = <<>>
    /\ files = [f \in FileNames |-> NoFile]
    /\ lastColumns = {} /\ lastReadable = TRUE

\* One pass of the loop, lines 160-164, when load_and_clean returns.
LoopPass ==
    /\ pc = "loop" /\ MoreSources(next)
    /\ \E t \in MainTables(FILES[next]) :
          LET r == load_and_clean(FILES[next], t) IN
          /\ ~r.raised
          /\ cleaned' = Append(cleaned, r.df)
          /\ files' = [files EXCEPT ![OutName(FILES[next])] = ToCsv(r.df)]
          /\ lastColumns' = t.columns
          /\ lastReadable' = t.readable
    /\ next' = next + 1
    /\ UNCHANGED <<pc, textVars, loadVars>>

\* Line 160 when load_and_clean raises: the exception leaves main.
LoopRaise ==
    /\ pc = "loop" /\ MoreSources(next)
    /\ \E t \in MainTables(FILES[next]) :
          /\ load_and_clean(FILES[next], t).raised
          /\ lastColumns' = t.columns
          /\ lastReadable' = t.readable
    /\ pc' = "error"
    /\ UNCHANGED <<next, cleaned, files, textVars, loadVars>>

\* lines 166-167
WriteAll ==
    /\ pc = "loop" /\ ~MoreSources(next)
    /\ files' = [files EXCEPT !["tweets_all_cleaned.csv"] = ToCsv(Concat(cleaned))]
    /\ pc' = "w2020"
    /\ UNCHANGED <<next, cleaned, lastColumns, lastReadable, textVars, loadVars>>

\* lines 169, 172
Write2020 ==
    /\ pc = "w2020"
    /\ files' = [files EXCEPT !["tweets_2020_cleaned.csv"] =
                    ToCsv(YearOf(Concat(cleaned), "2020"))]
    /\ pc' = "w2024"
    /\ UNCHANGED <<next, cleaned, lastColumns, lastReadable, textVars, loadVars>>

\* lines 170, 173
Write2024 ==
    /\ pc = "w2024"
    /\ files' = [files EXCEPT !["tweets_2024_cleaned.csv"] =
                    ToCsv(YearOf(Concat(cleaned), "2024"))]
    /\ pc' = "done"
    /\ UNCHANGED <<next, cleaned, lastColumns, lastReadable, textVars, loadVars>>

(***************************************************************************)
(* Specifications                                                          *)
(***************************************************************************)
\* clean_text
InitText == TextInit /\ IdleLoad /\ IdleMain

NextText == CleanOnce \/ CleanTwice

SpecText == InitText /\ [][NextText]_vars

\* load_and_clean
InitLoad == IdleText /\ LoadInit /\ IdleMain

SpecLoad == InitLoad /\ [][Load]_vars

Init == IdleText /\ IdleLoad /\ MainInit

Next == LoopPass \/ LoopRaise \/ WriteAll \/ Write2020 \/ Write2024

\* main
Spec == Init /\ [][Next]_vars

(***************************************************************************)
(* Properties                                                              *)
(***************************************************************************)
\* The index labels of the rows of a frame
Labels(df) == {df[k].idx : k \in DOMAIN df}

\* The call of load_and_clean has returned a frame.
Returned == lpc = "done" /\ ~result.raised

\* The raw table of the call has a column that holds, or reconciles to, name.
HasColumn(name) == name \in Reconciled(source, table.columns)

\* C1: clean_text is idempotent: cleaning the result of clean_text again
\* changes nothing, for every input string.
C1_Idempotent == tpc = "twice" => twice = once

\* C2, as stated: clean_text("RT @alice: Check http://x.co/abc #GoVote!!")
\* is "check govote!!".
C2_ExampleAsStated ==
    (tpc # "start" /\ raw = PyStr(ExampleTweet)) => once = <<"c", "h", "e", "c", "k", " ", "g", "o", "v", "o", "t", "e", "!", "!">>

\* C2, amended: clean_text("RT @alice: Check http://x.co/abc #GoVote!!") is
\* ": check govote!!": the RT prefix, the mention @alice and the URL are
\* removed, the # is stripped, the case is folded and the punctuation stays,
\* the colon after the mention included.
C2_ExampleResult ==
    (tpc # "start" /\ raw = PyStr(ExampleTweet)) => once = <<":", " ", "c", "h", "e", "c", "k", " ", "g", "o", "v", "o", "t", "e", "!", "!">>

C2_ExampleCleaned == tpc = "once" /\ raw = PyStr(ExampleTweet)

\* C3: a null or missing text maps to the empty string: clean_text(None) is
\* "", and a row whose text cell is missing in the CSV gets the cleaned text
\* "" and is no row of the frame load_and_clean returns.
C3_MissingTextIsEmpty ==
    /\ clean_text(PyNone) = <<>>
    /\ Returned =>
          \A k \in DOMAIN table.rows :
              table.rows[k].text = PyNaN =>
                  /\ result.cleaned[k].text = <<>>
                  /\ table.rows[k].idx \notin Labels(result.df)

\* C4: in the frame load_and_clean returns no two rows have the same tweet_id
\* when the reconciled table has a tweet_id column; when it has none, no two
\* rows have the same text and every tweet_id is the empty string.
C4_UniqueKeys ==
    Returned =>
        \A a, b \in DOMAIN result.df :
            IF HasColumn("tweet_id")
            THEN a # b => result.df[a].tweet_id # result.df[b].tweet_id
            ELSE /\ a # b => result.df[a].text # result.df[b].text
                 /\ result.df[a].tweet_id = ""

C4_DuplicateDropped ==
    /\ Returned /\ HasColumn("tweet_id")
    /\ Len(result.nonempty) = 2 /\ Len(result.df) = 1
    /\ result.nonempty[1].text # result.nonempty[2].text

\* C5, as stated: of two rows of one source with the same tweet_id and
\* different text, the later one is no row of the frame load_and_clean
\* returns, whatever the language filter says of either.
C5_LaterNeverKept ==
    (Returned /\ HasColumn("tweet_id")) =>
        \A a, b \in DOMAIN table.rows :
            (a < b /\ table.rows[a].id = table.rows[b].id
                   /\ table.rows[a].text # table.rows[b].text)
            => table.rows[b].idx \notin Labels(result.df)

\* C5, amended: among the rows that passed the language filter and the
\* emptiness filter, the returned frame holds exactly the first row of each
\* tweet_id, in the order of the raw file; a later row with the same tweet_id
\* is kept when no earlier one passed the filters.
C5_FirstPassingKept ==
    (Returned /\ HasColumn("tweet_id")) =>
        /\ \A k \in DOMAIN result.nonempty :
              result.nonempty[k].idx \in Labels(result.df)
              <=> ~\E j \in 1..(k - 1) : result.nonempty[j].id = result.nonempty[k].id
        /\ Labels(result.df) \subseteq Labels(result.nonempty)
        /\ \A a, b \in DOMAIN result.df : a < b => result.df[a].idx < result.df[b].idx

C5_SecondOfTwoDropped ==
    /\ Returned /\ HasColumn("tweet_id")
    /\ Len(table.rows) = 2 /\ Len(result.nonempty) = 2
    /\ table.rows[1].id = table.rows[2].id
    /\ table.rows[1].text # table.rows[2].text
    /\ Labels(result.df) = {table.rows[1].idx}

\* C6: every row load_and_clean returns has a non-empty text for which
\* is_english returned true; a row whose cleaned text is empty is never
\* returned; is_english("") is false, so the emptiness filter of line 140
\* removes nothing the language filter kept.
C6_NonEmptyEnglish ==
    /\ \A o \in DetectOutcomes : ~is_english(<<>>, o).value
    /\ Returned =>
          /\ \A k \in DOMAIN result.cleaned :
                result.cleaned[k].idx \in Labels(result.df) =>
                    /\ result.cleaned[k].text # <<>>
                    /\ is_english(result.cleaned[k].text, result.cleaned[k].lang).value
                    /\ ~is_english(result.cleaned[k].text, result.cleaned[k].lang).raised
          /\ \A k \in DOMAIN result.df : result.df[k].text # <<>>
          /\ result.nonempty = result.english

C6_EmptyTextFiltered ==
    /\ Returned
    /\ \E k \in DOMAIN result.cleaned :
          result.cleaned[k].text = <<>> /\ result.cleaned[k].lang = "en"
    /\ Len(result.df) = 1

\* The table of the call without its k-th row; the other rows keep their labels.
Without(t, k) ==
    [t EXCEPT !.rows = SubSeq(t.rows, 1, k - 1) \o SubSeq(t.rows, k + 1, Len(t.rows))]

\* detect raised on the cleaned text of the k-th row of the call.
DetectFailed(k) ==
    /\ table.readable /\ HasColumn("text")
    /\ table.rows[k].lang = "LangDetectException"
    /\ clean_text(table.rows[k].text) # <<>>

\* C9: when detect raises on the text of one row, no exception leaves
\* load_and_clean, the row is not returned, and the other rows are returned
\* as they are for the table without that row.
C9_DetectionFailureLocal ==
    lpc = "done" =>
        \A k \in DOMAIN table.rows :
            DetectFailed(k) =>
                /\ ~result.raised
                /\ table.rows[k].idx \notin Labels(result.df)
                /\ Len(table.rows) > 1 =>
                      result.df = load_and_clean(source, Without(table, k)).df

C9_FailureBesideKeptRow ==
    /\ lpc = "done"
    /\ \E k \in DOMAIN table.rows : DetectFailed(k)
    /\ Len(result.df) = 1

\* The source whose table main read last (0 before the first).
LastSource == IF pc = "error" THEN next ELSE next - 1

Written(name) == files[name].exists

C8_AllIsConcatenation ==
    pc = "done" =>
        /\ Written("tweets_all_cleaned.csv")
        /\ files["tweets_all_cleaned.csv"].rows =
              files[OutName(FILES[1])].rows \o files[OutName(FILES[2])].rows
              \o files[OutName(FILES[3])].rows \o files[OutName(FILES[4])].rows

C8_AllSourcesContribute ==
    /\ pc = "done"
    /\ \A k \in DOMAIN FILES : Len(files[OutName(FILES[k])].rows) = 1
    /\ files[OutName(FILES[1])].rows[1].tweet_id # files[OutName(FILES[2])].rows[1].tweet_id

\* C10: a combined file is written only after all four per-source files; when
\* load_and_clean raises on the k-th source the run ends with exactly the
\* per-source files of the sources before it and no combined file, so it ends
\* with no file at all only when the first source fails.
C10_CombinedAfterAll ==
    /\ (\E n \in CombinedNames : Written(n)) =>
          /\ pc \in {"w2020", "w2024", "done"}
          /\ \A k \in DOMAIN FILES : Written(OutName(FILES[k]))
    /\ pc = "error" =>
          /\ \A k \in DOMAIN FILES : Written(OutName(FILES[k])) <=> k < next
          /\ \A n \in CombinedNames : ~Written(n)
          /\ (\A n \in FileNames : ~Written(n)) <=> next = 1

C10_FailedAfterTwo ==
    /\ pc = "error" /\ next = 3
    /\ Written(OutName(FILES[1])) /\ Written(OutName(FILES[2]))

=============================================================================
